---- MODULE Spec2Model ----
(***************************************************************************)
(* A model of the LonyiChat backend (src/api/index.js): an Express app     *)
(* whose handlers validate a request, issue one or two Firestore calls and *)
(* answer with JSON.  The documents of the store are the state; a handler  *)
(* that performs a single store call is one action; the church-follow      *)
(* handler, which runs a transaction and then a second store call, is a    *)
(* process with a position.  Server timestamps (createdAt) and the token   *)
(* verification of the authenticate middleware are left out: req.user.uid  *)
(* is the acting user of every authenticated request.                      *)
(***************************************************************************)
EXTENDS Integers, Sequences, FiniteSets, TLC

VARIABLES
    dbUp,            \* whether the module-level `db` handle was initialised
    users,           \* collection 'users': uid -> profile document or NoDoc
    churches,        \* collection 'churches': id -> church document or NoDoc
    posts,           \* collection 'posts': id -> post document or NoDoc
    friend_requests, \* collection 'friend_requests': key -> document or NoDoc
    follow,          \* the follow requests: slot -> request record
    http,            \* the last traced exchange of POST /signup-profile
    reacted          \* 200 replies of the react handler, per post and type

vars == <<dbUp, users, churches, posts, friend_requests, follow, http, reacted>>

----------------------------------------------------------------------------
(* Bounds of the model *)

MaxChurches == 1
MaxFollows == 2
MaxPosts == 1
MaxReacts == 3

(* The identities and ids the requests are drawn from *)

Uids == {"A", "B", "C"}
ChurchIds == 1..MaxChurches
GhostChurch == 0
PostIds == 1..MaxPosts
GhostPost == 0
Slots == 1..MaxFollows

NoDoc == [exists |-> FALSE]
Idle == [pc |-> "idle"]
NoExchange == [route |-> "none"]

----------------------------------------------------------------------------
(* Firestore primitives, as the handlers use them *)

\* Array.prototype.includes / String.prototype.includes on a sequence
Includes(arr, x) == \E i \in 1..Len(arr) : arr[i] = x

\* FieldValue.arrayUnion(x): append x unless the array already holds it
ArrayUnion(arr, x) == IF Includes(arr, x) THEN arr ELSE Append(arr, x)

FieldIncrementLost(cur, n) == n
\* FieldValue.increment(n): the stored number plus n, applied by the store
FieldIncrement(cur, n) == cur + n

\* DocumentReference.set(data, {merge: true}): the fields of data replace the
\* fields of the same name, the other fields of the document stay
MergeSet(old, data) ==
    [f \in (DOMAIN old) \cup (DOMAIN data) |->
        IF f \in DOMAIN data THEN data[f] ELSE old[f]]

----------------------------------------------------------------------------
(* JSON values of a request body.  A string field that the code inspects    *)
(* character by character is a sequence of one-character strings; an id is  *)
(* a string the code only tests and passes on.                              *)

Undef == [t |-> "undef"]
Str(chars) == [t |-> "str", s |-> chars]
Num(n) == [t |-> "num", n |-> n]
Id(id) == [t |-> "id", id |-> id]

\* JavaScript's ToBoolean, negated: undefined, "", and 0 are falsy
Falsy(v) ==
    CASE v.t = "undef" -> TRUE
      [] v.t = "str" -> v.s = <<>>
      [] v.t = "id" -> v.id = ""
      [] v.t = "num" -> v.n = 0

IsString(v) == v.t \in {"str", "id"}

IsSpace(c) == c = " "

RECURSIVE TrimStart(_)
TrimStart(s) ==
    IF s # <<>> /\ IsSpace(Head(s)) THEN TrimStart(Tail(s)) ELSE s

RECURSIVE TrimEnd(_)
TrimEnd(s) ==
    IF s # <<>> /\ IsSpace(s[Len(s)]) THEN TrimEnd(SubSeq(s, 1, Len(s) - 1)) ELSE s

\* String.prototype.trim
Trim(s) == TrimEnd(TrimStart(s))

Digits == <<"0", "1", "2", "3", "4", "5", "6", "7", "8", "9">>
IsDigit(c) == \E d \in 1..10 : Digits[d] = c
DigitVal(c) == (CHOOSE d \in 1..10 : Digits[d] = c) - 1

RECURSIVE ParseDigits(_, _)
ParseDigits(s, acc) ==
    IF s # <<>> /\ IsDigit(Head(s))
    THEN ParseDigits(Tail(s), acc * 10 + DigitVal(Head(s)))
    ELSE acc

NaN == [nan |-> TRUE]
Number(n) == [nan |-> FALSE, val |-> n]

\* parseInt(v): of a number, its integer part (the model's numbers are
\* integers); of a string, the decimal prefix after leading white space and
\* an optional sign; NaN when there is none
ParseInt(v) ==
    CASE v.t = "num" -> Number(v.n)
      [] v.t = "str" ->
           LET body == TrimStart(v.s)
               neg == body # <<>> /\ Head(body) = "-"
               rest == IF body # <<>> /\ Head(body) \in {"-", "+"} THEN Tail(body) ELSE body
           IN  IF rest # <<>> /\ IsDigit(Head(rest))
               THEN Number(IF neg THEN 0 - ParseDigits(rest, 0) ELSE ParseDigits(rest, 0))
               ELSE NaN
      [] OTHER -> NaN

E_userId == "userId (Firebase UID) is required."
E_name == "Name is required and must be at least 2 characters."
E_email == "A valid Email is required."
E_phone == "Phone Number must be at least 10 digits."
E_age == "Age is required and must be 18 or older."
E_country == "Country is required."
E_photoUrl == "Photo URL must be a string."

\* v.trim() and v.includes() exist on strings only: on any other truthy
\* value the call is a TypeError
ThrowsOnStringMethod(v) == ~Falsy(v) /\ ~IsString(v)

\* v.trim().length < n
TrimmedShorterThan(v, n) == Len(Trim(v.s)) < n

\* !age || isNaN(parseInt(age)) || parseInt(age) < 18
AgeRejected(age) ==
    Falsy(age) \/ ParseInt(age).nan \/ ParseInt(age).val < 18

\* validateProfileData(data): the list of errors, or a TypeError thrown by
\* the first string method called on a value that is no string
validateProfileData(data) ==
    LET throws == \E f \in {"name", "email", "phone", "country"} :
                      ThrowsOnStringMethod(data[f])
        e1 == IF Falsy(data.userId) THEN <<E_userId>> ELSE <<>>
        e2 == IF Falsy(data.name) \/ TrimmedShorterThan(data.name, 2)
              THEN <<E_name>> ELSE <<>>
        e3 == IF Falsy(data.email) \/ ~Includes(data.email.s, "@")
              THEN <<E_email>> ELSE <<>>
        e4 == IF Falsy(data.phone) \/ TrimmedShorterThan(data.phone, 10)
              THEN <<E_phone>> ELSE <<>>
        e5 == IF AgeRejected(data.age) THEN <<E_age>> ELSE <<>>
        e6 == IF Falsy(data.country) \/ TrimmedShorterThan(data.country, 2)
              THEN <<E_country>> ELSE <<>>
        e7 == IF ~Falsy(data.photoUrl) /\ ~IsString(data.photoUrl)
              THEN <<E_photoUrl>> ELSE <<>>
    IN  IF throws
        THEN [threw |-> TRUE, errors |-> <<>>]
        ELSE [threw |-> FALSE, errors |-> e1 \o e2 \o e3 \o e4 \o e5 \o e6 \o e7]

----------------------------------------------------------------------------
(* Responses *)

M_NoDb == "Server error: Firebase connection not available. Check Vercel secrets."
M_StoreError == "store error"
M_DocNotFound == "NOT_FOUND: No document to update"

\* checkDbConnection(res): false, after a 500 response, when db is not set
checkDbConnection == dbUp

\* An async handler that throws outside its try block rejects its promise:
\* Express 4 then sends nothing (status 0 here), Express 5 answers 500
UncaughtOutcomes == {0, 500}

----------------------------------------------------------------------------
(* POST /signup-profile *)

\* the document written by userRef.set(..., {merge: true})
ProfileFields(data) ==
    [exists |-> TRUE,
     name |-> data.name,
     email |-> data.email,
     phone |-> data.phone,
     age |-> ParseInt(data.age).val,
     country |-> data.country,
     photoUrl |-> IF Falsy(data.photoUrl) THEN [t |-> "null"] ELSE data.photoUrl,
     following |-> <<>>,
     followers |-> <<>>,
     churches |-> <<>>]

\* db.collection('users').doc(id) throws unless id is a non-empty string
ValidDocId(v) == v.t = "id" /\ v.id # ""

SignupReply(data, status, message, wrote) ==
    [route |-> "signup-profile", body |-> data, status |-> status,
     message |-> message, wrote |-> wrote]

\* `traced` tells whether the exchange is kept in http, for the properties
\* that read the reply
SignupProfile(data, traced) ==
    /\ UNCHANGED <<dbUp, churches, posts, friend_requests, follow, reacted>>
    /\ LET Reply(status, message, wrote) ==
               http' = IF traced THEN SignupReply(data, status, message, wrote) ELSE http
       IN  IF ~checkDbConnection
           THEN Reply(500, M_NoDb, FALSE) /\ UNCHANGED users
           ELSE LET v == validateProfileData(data) IN
                IF v.threw
                THEN /\ \E uncaught \in UncaughtOutcomes : Reply(uncaught, "TypeError", FALSE)
                     /\ UNCHANGED users
                ELSE IF Len(v.errors) > 0
                THEN Reply(400, "Validation failed.", FALSE) /\ UNCHANGED users
                ELSE \E storeOk \in BOOLEAN :
                     IF ~ValidDocId(data.userId) \/ ~storeOk
                     THEN /\ Reply(500, "Failed to save profile data.", FALSE)
                          /\ UNCHANGED users
                     ELSE /\ users' = [users EXCEPT ![data.userId.id] =
                                           MergeSet(@, ProfileFields(data))]
                          /\ Reply(201, "Profile data saved successfully to Firestore.", TRUE)

----------------------------------------------------------------------------
(* POST /churches.  The replies of this handler and of the post, react and  *)
(* friend-request handlers are not kept: a reply changes nothing the later  *)
(* requests read.  `status` names the reply the handler sends.              *)

\* collection.add(): a document under a fresh auto-generated id
FreshChurchId == CHOOSE c \in ChurchIds :
                    /\ ~churches[c].exists
                    /\ \A d \in ChurchIds : d < c => churches[d].exists

NewChurch(uid, name, description) ==
    [exists |-> TRUE,
     name |-> name,
     description |-> IF Falsy(description) THEN Id("") ELSE description,
     createdBy |-> uid,
     members |-> <<uid>>,
     followerCount |-> 1]

CreateChurch(uid, name, description, storeOk) ==
    /\ UNCHANGED <<dbUp, users, posts, friend_requests, follow, http, reacted>>
    /\ LET status == IF ~checkDbConnection THEN 500
                     ELSE IF Falsy(name) THEN 400
                     ELSE IF ~storeOk THEN 500
                     ELSE 201
       IN  IF status = 201
           THEN /\ \E c \in ChurchIds : ~churches[c].exists
                /\ churches' = [churches EXCEPT ![FreshChurchId] =
                                    NewChurch(uid, name, description)]
           ELSE UNCHANGED churches

----------------------------------------------------------------------------
(* POST /churches/:churchId/follow.  The handler awaits three store calls:  *)
(* the transaction's read, the transaction's commit, and the update of the  *)
(* user's profile; other requests run between them.  A slot is one request; *)
(* slots are taken in order and used once.  `alone` tells whether the       *)
(* request ran with no other follow request in flight.                      *)

InFlight(r) == follow[r].pc \in {"txn", "commit", "profile"}
Finished(r) == follow[r].pc = "done"

FollowReply(req, status, message) ==
    [req EXCEPT !.pc = "done", !.status = status, !.message = message]

\* the ids a request can name: the ids of the collection and one that no
\* document ever has
FollowTargets == ChurchIds \cup {GhostChurch}

FollowStart(r, uid, churchId) ==
    /\ follow[r].pc = "idle"
    /\ \A q \in Slots : q < r => follow[q].pc # "idle"
    /\ UNCHANGED <<dbUp, users, churches, posts, friend_requests, http, reacted>>
    /\ LET req == [pc |-> "txn", uid |-> uid, churchId |-> churchId,
                   seen |-> NoDoc, wrote |-> FALSE, status |-> 0, message |-> "",
                   alone |-> \A q \in Slots : ~InFlight(q)]
       IN  follow' = [q \in Slots |->
                IF q = r
                THEN IF checkDbConnection THEN req ELSE FollowReply(req, 500, M_NoDb)
                ELSE IF InFlight(q) THEN [follow[q] EXCEPT !.alone = FALSE]
                ELSE follow[q]]

\* currentMembers.includes(req.user.uid)
AlreadyMemberBlind(doc, uid) == FALSE
AlreadyMember(doc, uid) == Includes(doc.members, uid)

ChurchNotFoundReturns(req) == [req EXCEPT !.pc = "profile"]
\* if (!doc.exists) throw new Error("Church not found."): the transaction
\* rejects and the handler's catch answers 500 with the error's message
ChurchNotFound(req) == FollowReply(req, 500, "Church not found.")

\* const doc = await transaction.get(churchRef), and the callback up to its
\* return or its transaction.update
FollowRead(r, storeOk) ==
    /\ follow[r].pc = "txn"
    /\ UNCHANGED <<dbUp, users, churches, posts, friend_requests, http, reacted>>
    /\ LET req == follow[r]
           doc == churches[req.churchId]
       IN  follow' = [follow EXCEPT ![r] =
                IF ~storeOk THEN FollowReply(req, 500, M_StoreError)
                ELSE IF ~doc.exists THEN ChurchNotFound(req)
                ELSE IF AlreadyMember(doc, req.uid)
                     THEN [req EXCEPT !.pc = "profile", !.seen = doc]
                ELSE [req EXCEPT !.pc = "commit", !.seen = doc]]

\* The transaction commits only if the document it read has not been written
\* since; otherwise runTransaction runs the callback again
CommitValidBlind(seen, current) == TRUE
CommitValid(seen, current) == seen = current

\* transaction.update(churchRef, {members: arrayUnion(uid),
\*                               followerCount: increment(1)})
JoinUpdateCountOnly(doc, uid) ==
    [doc EXCEPT !.followerCount = FieldIncrement(@, 1)]
JoinUpdateDropped(doc, uid) == doc
JoinUpdate(doc, uid) ==
    [doc EXCEPT !.members = ArrayUnion(@, uid),
                !.followerCount = FieldIncrement(@, 1)]

\* The commit of the transaction.  A failed commit (the store unreachable, or
\* the retries of runTransaction used up) rejects and the handler answers 500
FollowCommit(r, storeOk) ==
    /\ follow[r].pc = "commit"
    /\ UNCHANGED <<dbUp, users, posts, friend_requests, http, reacted>>
    /\ LET req == follow[r]
           doc == churches[req.churchId]
       IN  IF ~storeOk
           THEN /\ UNCHANGED churches
                /\ follow' = [follow EXCEPT ![r] = FollowReply(req, 500, M_StoreError)]
           ELSE IF ~CommitValid(req.seen, doc)
           THEN /\ UNCHANGED churches
                /\ follow' = [follow EXCEPT ![r] = [req EXCEPT !.pc = "txn"]]
           ELSE /\ churches' = [churches EXCEPT ![req.churchId] = JoinUpdate(doc, req.uid)]
                /\ follow' = [follow EXCEPT ![r] =
                                 [req EXCEPT !.pc = "profile", !.wrote = TRUE]]

\* await userRef.update({churches: arrayUnion(churchId)}) and the response;
\* update() rejects when the document does not exist
FollowProfile(r, storeOk) ==
    /\ follow[r].pc = "profile"
    /\ UNCHANGED <<dbUp, churches, posts, friend_requests, http, reacted>>
    /\ LET req == follow[r]
           profile == users[req.uid]
       IN  IF ~storeOk
           THEN /\ UNCHANGED users
                /\ follow' = [follow EXCEPT ![r] = FollowReply(req, 500, M_StoreError)]
           ELSE IF ~profile.exists
           THEN /\ UNCHANGED users
                /\ follow' = [follow EXCEPT ![r] = FollowReply(req, 500, M_DocNotFound)]
           ELSE /\ users' = [users EXCEPT ![req.uid].churches = ArrayUnion(@, req.churchId)]
                /\ follow' = [follow EXCEPT ![r] =
                                 FollowReply(req, 200, "Successfully followed church.")]

----------------------------------------------------------------------------
(* POST /posts and POST /posts/:postId/react *)

ReactionTypes == {"amen", "love"}
PostTargets == PostIds \cup {GhostPost}

FreshPostId == CHOOSE p \in PostIds :
                  /\ ~posts[p].exists
                  /\ \A q \in PostIds : q < p => posts[q].exists

NewPost(uid, userData, content, type) ==
    [exists |-> TRUE,
     authorId |-> uid,
     authorName |-> userData.name,
     authorPhotoUrl |-> userData.photoUrl,
     content |-> content,
     type |-> IF type.t = "undef" THEN Id("post") ELSE type,
     reactions |-> [amen |-> 0, hallelujah |-> 0, praiseGod |-> 0],
     commentCount |-> 0]

\* The handler reads the author's profile and then adds the post; the two
\* calls are one step here: what runs between them can only change the name
\* that is copied into the post.
CreatePost(uid, content, type, storeOk) ==
    /\ UNCHANGED <<dbUp, users, churches, friend_requests, follow, http, reacted>>
    /\ LET status == IF ~checkDbConnection THEN 500
                     ELSE IF Falsy(content) THEN 400
                     ELSE IF ~storeOk THEN 500
                     ELSE IF ~users[uid].exists THEN 404
                     ELSE 201
       IN  IF status = 201
           THEN /\ \E p \in PostIds : ~posts[p].exists
                /\ posts' = [posts EXCEPT ![FreshPostId] =
                                 NewPost(uid, users[uid], content, type)]
           ELSE UNCHANGED posts

\* the value of the field reactions.<type>, 0 while the field is not set
ReactionCount(doc, type) ==
    IF type \in DOMAIN doc.reactions THEN doc.reactions[type] ELSE 0

\* postRef.update({[`reactions.${reactionType}`]: FieldValue.increment(1)});
\* update() rejects when the document does not exist
ReactUpdate(doc, type) ==
    [doc EXCEPT !.reactions =
        (type :> FieldIncrement(ReactionCount(doc, type), 1)) @@ @]

\* `reacted` counts the 200 replies of this handler, which reads nothing of
\* the authenticated user
React(postId, reactionType, storeOk) ==
    /\ UNCHANGED <<dbUp, users, churches, friend_requests, follow, http>>
    /\ LET status == IF ~checkDbConnection THEN 500
                     ELSE IF Falsy(reactionType) THEN 400
                     ELSE IF ~storeOk THEN 500
                     ELSE IF ~posts[postId].exists THEN 500
                     ELSE 200
       IN  IF status = 200
           THEN /\ reacted[postId][reactionType.id] < MaxReacts
                /\ posts' = [posts EXCEPT ![postId] = ReactUpdate(@, reactionType.id)]
                /\ reacted' = [reacted EXCEPT ![postId][reactionType.id] = @ + 1]
           ELSE UNCHANGED <<posts, reacted>>

----------------------------------------------------------------------------
(* POST /users/friend-request *)

FriendSenders == {"A", "B", "A_B"}
FriendRecipients == {"A", "B", "C", "B_C"}

FriendRequestKeySwapped(senderId, recipientId) == recipientId \o "_" \o senderId
\* `${senderId}_${recipientId}`
FriendRequestKey(senderId, recipientId) == senderId \o "_" \o recipientId

FriendKeys == {s \o "_" \o r : s \in FriendSenders \cup FriendRecipients,
                               r \in FriendSenders \cup FriendRecipients}

\* requestRef.set({from, to, status: 'pending', createdAt})
FriendRequest(senderId, recipientId, storeOk) ==
    /\ UNCHANGED <<dbUp, users, churches, posts, follow, http, reacted>>
    /\ LET status == IF ~checkDbConnection THEN 500
                     ELSE IF Falsy(recipientId) THEN 400
                     ELSE IF ~storeOk THEN 500
                     ELSE 201
       IN  IF status = 201
           THEN friend_requests' =
                    [friend_requests EXCEPT
                        ![FriendRequestKey(senderId, recipientId.id)] =
                            [exists |-> TRUE, from |-> senderId,
                             to |-> recipientId.id, status |-> "pending"]]
           ELSE UNCHANGED friend_requests

----------------------------------------------------------------------------
(* The request bodies the handlers are driven with *)

Chars(n, c) == [i \in 1..n |-> c]

ProfileOf(uid) ==
    [userId |-> Id(uid), name |-> Str(<<"J", "o">>), email |-> Str(<<"a", "@", "b">>),
     phone |-> Str(Chars(10, "1")), age |-> Num(20), country |-> Str(<<"U", "S">>),
     photoUrl |-> Undef]

\* one valid profile per user
MemberPayloads == {ProfileOf(u) : u \in Uids}

\* the values a field of the body takes apart from the valid one
FieldValues ==
    [userId |-> {Undef, Num(7)},
     name |-> {Undef, Str(<<" ", "J", " ">>), Num(7)},
     email |-> {Str(<<"a", "b">>), Num(7)},
     phone |-> {Str(Chars(9, "1")), Str(<<" ">> \o Chars(9, "1")), Num(7)},
     age |-> {Undef, Num(17), Num(18), Str(<<"1", "7">>),
              Str(<<" ", "1", "9", "x">>), Str(<<"a">>)},
     country |-> {Str(<<"U">>), Num(7)},
     photoUrl |-> {Str(<<"u">>), Num(7)}]

Variations == UNION {{<<f, v>> : v \in FieldValues[f]} : f \in DOMAIN FieldValues}

\* the valid body of user A with at most two of its fields replaced
SignupPayloads ==
    {ProfileOf("A")} \cup
    {[[ProfileOf("A") EXCEPT ![x[1]] = x[2]] EXCEPT ![y[1]] = y[2]] :
        x \in Variations, y \in Variations}

----------------------------------------------------------------------------
(* The state after the module is loaded: the store holds what the requests  *)
(* have put there, and db is set unless the initialisation failed.          *)

Init ==
    /\ dbUp \in BOOLEAN
    /\ users = [u \in Uids |-> NoDoc]
    /\ churches = [c \in FollowTargets |-> NoDoc]
    /\ posts = [p \in PostTargets |-> NoDoc]
    /\ friend_requests = [k \in FriendKeys |-> NoDoc]
    /\ follow = [r \in Slots |-> Idle]
    /\ http = NoExchange
    /\ reacted = [p \in PostTargets |-> [t \in ReactionTypes |-> 0]]

Signup == \E data \in MemberPayloads : SignupProfile(data, FALSE)

\* the users who found churches
Founders == {"A"}

Churches == \E uid \in Founders, name \in {Undef, Id("Grace")}, storeOk \in BOOLEAN :
                CreateChurch(uid, name, Undef, storeOk)

Follow ==
    \/ \E r \in Slots, uid \in Uids, c \in FollowTargets : FollowStart(r, uid, c)
    \/ \E r \in Slots, storeOk \in BOOLEAN : FollowRead(r, storeOk)
    \/ \E r \in Slots, storeOk \in BOOLEAN : FollowCommit(r, storeOk)
    \/ \E r \in Slots, storeOk \in BOOLEAN : FollowProfile(r, storeOk)

\* The membership service: profiles, churches and the follow requests
Next == Signup \/ Churches \/ Follow

Spec == Init /\ [][Next]_vars

\* Profile validation over the whole range of request bodies
SignupAny == \E data \in SignupPayloads : SignupProfile(data, TRUE)

SpecSignup == Init /\ [][SignupAny]_vars

\* Posts and their reaction counters
Posts == \E uid \in Uids, content \in {Undef, Id("hello")}, storeOk \in BOOLEAN :
             CreatePost(uid, content, Undef, storeOk)

Reacts == \E p \in PostTargets, t \in {Undef} \cup {Id(x) : x \in ReactionTypes},
             storeOk \in BOOLEAN :
              React(p, t, storeOk)

NextReact == Signup \/ Posts \/ Reacts

SpecReact == Init /\ [][NextReact]_vars

\* Friend requests
Friends == \E s \in FriendSenders, r \in {Undef} \cup {Id(x) : x \in FriendRecipients},
              storeOk \in BOOLEAN :
               FriendRequest(s, r, storeOk)

SpecFriend == Init /\ [][Friends]_vars

----------------------------------------------------------------------------
(* Properties of the membership service (Spec) *)

Members(c) == {churches[c].members[i] : i \in 1..Len(churches[c].members)}
Target(r, c, m) == follow[r].pc # "idle" /\ follow[r].churchId = c /\ follow[r].uid = m
\* the transaction of request r has ended without an error
TxnEnded(r) ==
    \/ follow[r].pc = "profile"
    \/ Finished(r) /\ follow[r].status = 200
    \/ Finished(r) /\ follow[r].message = M_DocNotFound
Writers(c) == {r \in Slots : follow[r].pc # "idle" /\ follow[r].churchId = c /\ follow[r].wrote}

\* C1: in every reachable state every church document has followerCount equal
\* to the number of distinct members, and members holds no uid twice
C1_CountIsMembers ==
    \A c \in ChurchIds :
        churches[c].exists =>
            /\ churches[c].followerCount = Cardinality(Members(c))
            /\ Len(churches[c].members) = Cardinality(Members(c))

\* two overlapping follow requests have both joined a church
C1_Witness ==
    \E c \in ChurchIds :
        /\ churches[c].exists
        /\ churches[c].followerCount = 3
        /\ \A r \in {1, 2} : Finished(r) /\ follow[r].churchId = c
                              /\ follow[r].wrote /\ ~follow[r].alone

\* request r follows request q = r - 1 sequentially: q had finished, having
\* joined or found the user a member, before r began, and no other follow
\* request has overlapped either of them
Sequential(q, r) ==
    /\ r = q + 1
    /\ Finished(q) /\ follow[q].alone /\ TxnEnded(q)
    /\ follow[r].pc # "idle" /\ follow[r].alone
    /\ follow[r].churchId = follow[q].churchId
    /\ follow[r].uid = follow[q].uid

\* the step in which the transaction of request r commits its write
Commits(r) == follow[r].pc = "commit" /\ follow'[r].pc = "profile"

\* C2: of two sequential follow requests by the same user on the same church,
\* the commit of the first adds the user, who was no member, and raises
\* followerCount by exactly 1, and no step of the second changes the church
\* document: the two together raise followerCount by 1, not 2
C2_RepeatedFollow ==
    [][\A c \in ChurchIds :
          churches[c].exists =>
             /\ \A r \in Slots :
                   (Commits(r) /\ follow[r].churchId = c) =>
                       /\ ~Includes(churches[c].members, follow[r].uid)
                       /\ churches'[c].members = Append(churches[c].members, follow[r].uid)
                       /\ churches'[c].followerCount = churches[c].followerCount + 1
             /\ \A q \in Slots, r \in Slots :
                   (Sequential(q, r) /\ follow[r].churchId = c /\ follow'[r] # follow[r]) =>
                       churches'[c] = churches[c]
             /\ (\A r \in Slots : ~(Commits(r) /\ follow[r].churchId = c)) =>
                       churches'[c] = churches[c]]_vars

\* a user who was no member has followed a church twice, one request after
\* the other, and the church counts the founder and that user
C2_Witness ==
    /\ Sequential(1, 2)
    /\ Finished(2) /\ follow[1].status = 200 /\ follow[2].status = 200
    /\ follow[1].wrote /\ ~follow[2].wrote
    /\ churches[follow[1].churchId].followerCount = 2

\* C3: two overlapping follow requests by distinct users who are no members of
\* an existing church both end with a success response, both users are then
\* members and followerCount is the number of distinct members (the store
\* answering every call)
C3_ConcurrentJoinsSucceed ==
    \A r1 \in Slots, r2 \in Slots :
        (/\ r1 # r2 /\ Finished(r1) /\ Finished(r2) /\ dbUp
         /\ ~follow[r1].alone /\ ~follow[r2].alone
         /\ follow[r1].churchId = follow[r2].churchId
         /\ follow[r1].uid # follow[r2].uid
         /\ \A r \in {r1, r2} :
               /\ follow[r].message # M_StoreError
               /\ follow[r].message # "Church not found."
               /\ \A q \in Slots \ {r} : ~Target(q, follow[r].churchId, follow[r].uid)
               /\ follow[r].uid # churches[follow[r].churchId].createdBy)
        => LET c == follow[r1].churchId IN
           /\ follow[r1].status = 200 /\ follow[r2].status = 200
           /\ follow[r1].uid \in Members(c) /\ follow[r2].uid \in Members(c)
           /\ churches[c].followerCount = Cardinality(Members(c))

\* C4: of the follow requests by one user on one church at most one commits a
\* write, that write is the single occurrence of the user in members and a
\* single increment of followerCount, and every other request whose
\* transaction ended had read the user as a member and wrote nothing
C4_OneJoinPerMember ==
    \A c \in ChurchIds :
        /\ churches[c].exists =>
               churches[c].followerCount = 1 + Cardinality(Writers(c))
        /\ \A m \in Uids :
               LET W == {r \in Writers(c) : follow[r].uid = m} IN
               /\ Cardinality(W) <= 1
               /\ W # {} =>
                     /\ m # churches[c].createdBy
                     /\ Cardinality({i \in 1..Len(churches[c].members) :
                                        churches[c].members[i] = m}) = 1
               /\ \A r \in Slots :
                     (Target(r, c, m) /\ TxnEnded(r) /\ ~follow[r].wrote) =>
                         /\ follow[r].seen.exists
                         /\ Includes(follow[r].seen.members, m)

\* two overlapping requests by the same user, who was no member: one has
\* written, the other has read the user as a member
C4_Witness ==
    \E c \in ChurchIds, m \in Uids :
        /\ Target(1, c, m) /\ Target(2, c, m)
        /\ Finished(1) /\ Finished(2)
        /\ ~follow[1].alone /\ ~follow[2].alone
        /\ follow[1].status = 200 /\ follow[2].status = 200
        /\ \E w \in {1, 2} : follow[w].wrote /\ ~follow[3 - w].wrote
                             /\ ~Includes(follow[w].seen.members, m)
                             /\ Includes(follow[3 - w].seen.members, m)

\* C5: a follow request that reads a church id with no document ends with
\* status 500 and the message that the church was not found (or the store's
\* error, when the read itself fails), and none of its steps changes a church
\* document or a profile
C5_UnknownChurch ==
    [][\A r \in Slots :
          (/\ follow[r].pc # "idle"
           /\ ~churches[follow[r].churchId].exists
           /\ follow'[r].pc # follow[r].pc) =>
              /\ follow[r].pc = "txn"
              /\ follow'[r].pc = "done"
              /\ follow'[r].status = 500
              /\ follow'[r].message \in {"Church not found.", M_StoreError}
              /\ ~follow'[r].wrote
              /\ churches' = churches
              /\ users' = users]_vars

\* a user with a profile has followed an id that no church has, while a
\* church exists, and was told that the church was not found
C5_Witness ==
    \E r \in Slots :
        /\ Finished(r) /\ follow[r].churchId = GhostChurch
        /\ follow[r].status = 500 /\ follow[r].message = "Church not found."
        /\ users[follow[r].uid].exists
        /\ \E c \in ChurchIds : churches[c].exists

\* C6: a follow request by a user who is already in members changes no
\* document: the step that ends it leaves the church documents and every
\* profile as they were
C6_AlreadyMemberNoMutation ==
    [][\A r \in Slots :
          (/\ follow[r].pc = "profile" /\ follow'[r].pc = "done"
           /\ ~follow[r].wrote
           /\ Includes(follow[r].seen.members, follow[r].uid)) =>
              /\ churches' = churches
              /\ users' = users]_vars

\* C7: a follow request that ends with a failure response has committed no
\* write to the church document
C7_FailureCommitsNothing ==
    \A r \in Slots :
        (Finished(r) /\ follow[r].status = 500) => ~follow[r].wrote

\* the church ids in the churches list of the profile of u
ProfileChurches(u) ==
    IF users[u].exists
    THEN {users[u].churches[i] : i \in 1..Len(users[u].churches)}
    ELSE {}

\* C11: in every reachable state, for every user u and church id c, if c is in
\* the churches list of u's profile then church c has a document and u is in
\* its members
C11_ProfileChurchesAreMemberships ==
    \A u \in Uids : \A c \in ProfileChurches(u) :
        /\ c \in ChurchIds
        /\ churches[c].exists
        /\ u \in Members(c)

\* a user who joined a church by a follow request has it in the profile, while
\* another member of the same church has a profile that does not list it: the
\* records agree in the one direction only
C11_Witness ==
    \E r \in Slots :
        LET c == follow[r].churchId
            u == follow[r].uid
        IN  /\ Finished(r) /\ follow[r].status = 200 /\ follow[r].wrote
            /\ c \in ProfileChurches(u)
            /\ u \in Members(c)
            /\ \E m \in Members(c) \ {u} :
                   users[m].exists /\ c \notin ProfileChurches(m)

----------------------------------------------------------------------------
(* Properties of the reaction counters (SpecReact) *)

StoredReactions == ReactionTypes \cup {"hallelujah", "praiseGod"}

\* C8: for every post and reaction type the stored counter never decreases,
\* and it has grown from 0 by exactly the number of react requests for that
\* post and type that were answered with success
C8_ReactionsCounted ==
    /\ [](\A p \in PostIds, t \in ReactionTypes :
             posts[p].exists => ReactionCount(posts[p], t) = reacted[p][t])
    /\ [][\A p \in PostIds, t \in StoredReactions :
             posts[p].exists =>
                 /\ posts'[p].exists
                 /\ ReactionCount(posts'[p], t) >= ReactionCount(posts[p], t)]_vars

\* a post has taken two reactions of a type it was not created with and one
\* of a type it was created with
C8_Witness ==
    \E p \in PostIds :
        /\ posts[p].exists
        /\ reacted[p]["love"] = 2 /\ ReactionCount(posts[p], "love") = 2
        /\ reacted[p]["amen"] = 1 /\ ReactionCount(posts[p], "amen") = 1

----------------------------------------------------------------------------
(* Properties of the friend requests (SpecFriend) *)

\* C9: every friend-request document is stored under the key "<from>_<to>"
\* with status pending, and no ordered pair of sender and recipient has more
\* than one document, however many requests were sent
C9_OneRequestPerPair ==
    /\ \A k \in FriendKeys :
          friend_requests[k].exists =>
              /\ k = friend_requests[k].from \o "_" \o friend_requests[k].to
              /\ friend_requests[k].status = "pending"
    /\ \A s \in FriendSenders, r \in FriendRecipients :
          Cardinality({k \in FriendKeys :
                          /\ friend_requests[k].exists
                          /\ friend_requests[k].from = s
                          /\ friend_requests[k].to = r}) <= 1

\* A has asked B, and B has asked A: two documents, under "A_B" and "B_A"
C9_Witness ==
    /\ friend_requests["A_B"].exists
    /\ friend_requests["A_B"].from = "A" /\ friend_requests["A_B"].to = "B"
    /\ friend_requests["B_A"].exists
    /\ friend_requests["B_A"].from = "B" /\ friend_requests["B_A"].to = "A"

----------------------------------------------------------------------------
(* Properties of the profile validation (SpecSignup) *)

AllDigits(s) == s # <<>> /\ \A i \in 1..Len(s) : IsDigit(s[i])

\* the body states an age below 18, as a number or in decimal digits
AgeBelow18(v) ==
    \/ v.t = "num" /\ v.n < 18
    \/ v.t = "str" /\ AllDigits(v.s) /\ ParseDigits(v.s, 0) < 18

PhoneShorterThan10(v) == v.t = "str" /\ Len(v.s) < 10
EmailWithoutAt(v) == v.t = "str" /\ \A i \in 1..Len(v.s) : v.s[i] # "@"

\* C10: with the store available, signup-profile answers 400 and writes no
\* profile for a body whose age is below 18, whose phone is shorter than 10
\* characters or whose email holds no '@', and answers 201 with the profile
\* stored under userId for the valid body
C10_ProfileValidation ==
    (http.route = "signup-profile" /\ dbUp) =>
        /\ (\/ AgeBelow18(http.body.age)
            \/ PhoneShorterThan10(http.body.phone)
            \/ EmailWithoutAt(http.body.email)) =>
               (http.status = 400 /\ ~http.wrote)
        /\ (http.body = ProfileOf("A") /\ http.message # "Failed to save profile data.") =>
               /\ http.status = 201
               /\ users["A"].exists
               /\ users["A"].name = http.body.name
               /\ users["A"].age = 20

====
